---- MODULE Spec2Model ----
(***************************************************************************)
(* Model of repixel's orchestration layer: ImageCompressor.compress,       *)
(* ImageCompressor.optimize_quality and ImageCompressor.compress_batch     *)
(* (src/repixel/compressor.py) over an abstract file system and an         *)
(* abstract codec (src/repixel/algorithms.py, src/repixel/utils.py).       *)
(*                                                                         *)
(* A path is a record [dir, pre, base, suf, ext]: the file name is         *)
(*   "temp_optimize_" * pre  +  base  +  "_compressed" * suf  + "." + ext  *)
(* so that the f-strings of the source are string operations here too.     *)
(* Sizes are bytes; a size in MB is kept in thousandths of a MB, which is  *)
(* what round(size_mb, 3) leaves of it.                                    *)
(***************************************************************************)
EXTENDS Integers, Sequences, FiniteSets, TLC

VARIABLES
  fs,            \* the files: path -> [kind, bytes]
  dirs,          \* the directories that exist
  curve,         \* the codec's output size in bytes, per quality
  codecCalls,    \* every (output path, quality) handed to a codec's compress
  \* one call of ImageCompressor.compress
  cArgs, cpc, cRet,
  \* one call of ImageCompressor.optimize_quality
  oArgs, opc, low, high, best_result, bestQ, pending, probes, oRet,
  \* calls of ImageCompressor.compress_batch
  bArgs, bpc, image_files, idx, results, bRet, run, firstRun,
  calls,         \* optimize_quality calls that run side by side: call -> its state
  cancelled,     \* the caller has signalled cancellation
  cli,           \* one run of a command of the command line
  calc           \* one call of calculate_compression_ratio

vars == <<fs, dirs, curve, codecCalls, cArgs, cpc, cRet,
          oArgs, opc, low, high, best_result, bestQ, pending, probes, oRet,
          bArgs, bpc, image_files, idx, results, bRet, run, firstRun,
          calls, cancelled, cli, calc>>

compressVars == <<cArgs, cpc, cRet>>
optVars == <<oArgs, opc, low, high, best_result, bestQ, pending, probes, oRet>>
batchVars == <<bArgs, bpc, image_files, idx, results, bRet, run, firstRun>>
otherVars == <<calls, cancelled, cli, calc>>

----------------------------------------------------------------------------
(* Bounds *)

MaxQuality == 4          \* qualities are 1..MaxQuality
MaxTarget == 1           \* targets are 1..MaxTarget thousandths of a MB
MaxFiles == 3            \* files present in the input tree at the start of a batch
MaxRerunFiles == 2       \* the same, for a batch that is run twice
MaxBad == 1              \* of which so many are damaged or no images at all
MaxBytes == 8            \* sizes handed to calculate_compression_ratio: 0..MaxBytes
MinValidQuality == 1     \* "quality: Compression quality (1-100)"
MaxValidQuality == 100

Quality == 1..MaxQuality
ByteVals == {524, 525, 1573}    \* 0.000, 0.001 and 0.002 MB once rounded

None == "None"              \* Python's None where a string is expected
Nothing == [none |-> TRUE]  \* Python's None where a path or a dictionary is expected

----------------------------------------------------------------------------
(* Names and paths *)

\* str.lower() on the extensions and format names that occur
Lower(s) ==
  CASE s = "JPG" -> "jpg"
    [] s = "JPEG" -> "jpeg"
    [] s = "PNG" -> "png"
    [] s = "BMP" -> "bmp"
    [] OTHER -> s

Root == << >>
InDir == <<"in">>
SubDir == <<"in", "sub">>
DefaultOut == <<"in", "compressed">>
OutDir == <<"out">>

File(dir, base, ext) == [dir |-> dir, pre |-> 0, base |-> base, suf |-> 0, ext |-> ext]

\* f"{stem}_compressed.{ext}" under directory dir
CompressedName(dir, p, ext) ==
  [dir |-> dir, pre |-> p.pre, base |-> p.base, suf |-> p.suf + 1, ext |-> ext]

\* f"temp_optimize_{stem}.{ext}" next to p
TempName(p, ext) ==
  [dir |-> p.dir, pre |-> p.pre + 1, base |-> p.base, suf |-> p.suf, ext |-> ext]

IsPrefix(s, t) == Len(s) <= Len(t) /\ SubSeq(t, 1, Len(s)) = s

\* Path.relative_to(root).parent, for a path under root
RelativeParent(p, root) == SubSeq(p.dir, Len(root) + 1, Len(p.dir))

DirParent(d) == SubSeq(d, 1, Len(d) - 1)

\* every directory from d up to the root
RECURSIVE Ancestors(_)
Ancestors(d) == IF d = Root THEN {Root} ELSE {d} \cup Ancestors(DirParent(d))

----------------------------------------------------------------------------
(* The file system *)

Exists(fsys, p) == p \in DOMAIN fsys

WriteFile(fsys, p, c) == [q \in DOMAIN fsys \cup {p} |-> IF q = p THEN c ELSE fsys[q]]

Unlink(fsys, p) == [q \in DOMAIN fsys \ {p} |-> fsys[q]]

Image(bytes) == [kind |-> "image", bytes |-> bytes]
Damaged(bytes) == [kind |-> "damaged", bytes |-> bytes]   \* opens and verifies, fails to decode
Junk(bytes) == [kind |-> "junk", bytes |-> bytes]         \* not an image

----------------------------------------------------------------------------
(* utils.py *)

supported_extensions == {"jpg", "jpeg", "png", "webp", "bmp", "tiff", "tif"}

validate_image(fsys, p) ==
  /\ Exists(fsys, p)
  /\ Lower(p.ext) \in supported_extensions
  /\ fsys[p].kind # "junk"

\* round(size_bytes / (1024 * 1024), 3), in thousandths of a MB; Python rounds a tie to even
SizeMb(bytes) ==
  LET n == bytes * 1000
      d == 1024 * 1024
      q == n \div d
      r == n % d
  IN  IF 2 * r < d THEN q
      ELSE IF 2 * r > d THEN q + 1
      ELSE IF q % 2 = 0 THEN q ELSE q + 1

\* [raised |-> exception or None, info |-> the dictionary]
get_image_info(fsys, p) ==
  IF ~Exists(fsys, p) THEN [raised |-> "FileNotFoundError", info |-> Nothing]
  ELSE IF fsys[p].kind = "junk" THEN [raised |-> "ValueError: Cannot read image info", info |-> Nothing]
  ELSE [raised |-> None,
        info |-> [size_bytes |-> fsys[p].bytes, size_mb |-> SizeMb(fsys[p].bytes)]]

\* the division without the test for an original size of 0
DivideUnguarded(original_size, compressed_size) == <<compressed_size, original_size>>

\* a ratio is a pair <<numerator, denominator>>
calculate_compression_ratio(original_size, compressed_size) ==
  IF original_size = 0 THEN <<0, 1>> ELSE <<compressed_size, original_size>>

----------------------------------------------------------------------------
(* algorithms.py: the codecs *)

\* what a codec returns when the save succeeded
CodecSuccess(cls, quality) ==
  CASE cls = "JPEGCompressor" ->
         [success |-> TRUE, format |-> "JPEG", quality |-> quality,
          optimize |-> TRUE, progressive |-> TRUE]
    [] cls = "PNGCompressor" ->
         [success |-> TRUE, format |-> "PNG", compress_level |-> 6,
          optimize |-> TRUE, quality_applied |-> quality]
    [] cls = "WebPCompressor" ->
         [success |-> TRUE, format |-> "WebP", quality |-> quality,
          method |-> 4, lossless |-> FALSE]

\* what a codec returns from its except clause
CodecFailure(cls) ==
  [success |-> FALSE, error |-> "codec error",
   format |-> CASE cls = "JPEGCompressor" -> "JPEG"
                [] cls = "PNGCompressor" -> "PNG"
                [] cls = "WebPCompressor" -> "WebP"]

\* the codecs take any integer for a quality: the JPEG encoder works at the nearest
\* quality of its scale, the PNG codec caps the number of colours it derives from it
Nearest(quality) ==
  IF quality < 1 THEN 1 ELSE IF quality > MaxQuality THEN MaxQuality ELSE quality

\* Image.open(input) ... img.save(output): the save needs a decodable input and an
\* existing output directory; any exception is turned into a success = False record
CodecCompress(cls, fsys, dirset, input_path, output_path, quality) ==
  IF fsys[input_path].kind = "image" /\ output_path.dir \in dirset
  THEN [fs |-> WriteFile(fsys, output_path, Image(curve[Nearest(quality)])),
        result |-> CodecSuccess(cls, quality)]
  ELSE [fs |-> fsys, result |-> CodecFailure(cls)]

----------------------------------------------------------------------------
(* compressor.py: ImageCompressor.__init__ and ImageCompressor.compress *)

\* the dictionary of compressors, in insertion order
compressors ==
  << <<"jpeg", "JPEGCompressor">>, <<"jpg", "JPEGCompressor">>,
     <<"png", "PNGCompressor">>, <<"webp", "WebPCompressor">> >>

\* a lookup that falls back to the JPEG codec for an unknown format
CompressorsGetFallback(key) ==
  IF \E i \in 1..Len(compressors) : compressors[i][1] = key
  THEN (CHOOSE e \in {compressors[i] : i \in 1..Len(compressors)} : e[1] = key)[2]
  ELSE "JPEGCompressor"

\* self.compressors.get(key)
CompressorsGet(key) ==
  IF \E i \in 1..Len(compressors) : compressors[i][1] = key
  THEN (CHOOSE e \in {compressors[i] : i \in 1..Len(compressors)} : e[1] = key)[2]
  ELSE None

\* dict.update: the keys of extra win
DictUpdate(d, extra) ==
  [k \in DOMAIN d \cup DOMAIN extra |-> IF k \in DOMAIN extra THEN extra[k] ELSE d[k]]

\* result.update({...}): the codec's record with the paths and the size statistics
Statistics(result, input_path, output_path, original_info, compressed_info) ==
  LET compression_ratio ==
        calculate_compression_ratio(original_info.size_bytes, compressed_info.size_bytes)
  IN DictUpdate(result,
       [input_path |-> input_path,
        output_path |-> output_path,
        original_size_mb |-> original_info.size_mb,
        compressed_size_mb |-> compressed_info.size_mb,
        compression_ratio |-> compression_ratio,
        space_saved_mb |-> original_info.size_mb - compressed_info.size_mb,
        space_saved_percent |->
          <<(compression_ratio[2] - compression_ratio[1]) * 100, compression_ratio[2]>>])

Raise(fsys, exc) == [fs |-> fsys, raised |-> exc, result |-> Nothing, codec |-> {}]

\* the whole of compress: [fs |-> the files afterwards, raised |-> the exception or None,
\* result |-> the returned dictionary, codec |-> the codec calls made]
Compress(fsys, dirset, input_path, output_path, quality, format) ==
  IF ~validate_image(fsys, input_path)
  THEN Raise(fsys, "ValueError: Invalid image file")
  ELSE
    LET original_info == get_image_info(fsys, input_path).info
        fmt == IF format = None THEN Lower(input_path.ext) ELSE format
        out == IF output_path = Nothing
               THEN CompressedName(input_path.dir, input_path, fmt)
               ELSE output_path
        compressor == CompressorsGet(Lower(fmt))
    IN
    IF compressor = None
    THEN Raise(fsys, "ValueError: Unsupported format")
    ELSE
      LET done == CodecCompress(compressor, fsys, dirset, input_path, out, quality)
          call == {[output_path |-> out, quality |-> quality]}
          compressed == get_image_info(done.fs, out)
      IN
      IF compressed.raised # None
      THEN [fs |-> done.fs, raised |-> compressed.raised, result |-> Nothing, codec |-> call]
      ELSE
        [fs |-> done.fs, raised |-> None, codec |-> call,
         result |-> Statistics(done.result, input_path, out, original_info,
                               compressed.info)]

----------------------------------------------------------------------------
(* Environments *)

\* a size curve that grows with the quality
RampCurve == [q \in Quality |-> IF q = 1 THEN 524 ELSE IF q = 2 THEN 525 ELSE 1573]

Contents == {Image(1573), Damaged(1573), Junk(525)}

IdleCompress == cArgs = Nothing /\ cpc = "idle" /\ cRet = Nothing

IdleOpt ==
  /\ oArgs = Nothing /\ opc = "idle" /\ low = 0 /\ high = 0 /\ best_result = Nothing
  /\ bestQ = 0 /\ pending = None /\ probes = << >> /\ oRet = Nothing

IdleOther == calls = << >> /\ cancelled = FALSE /\ cli = Nothing /\ calc = Nothing

IdleBatch ==
  /\ bArgs = Nothing /\ bpc = "idle" /\ image_files = << >> /\ idx = 0
  /\ results = << >> /\ bRet = Nothing /\ run = 0 /\ firstRun = Nothing

----------------------------------------------------------------------------
(* One call of compress *)

CompressInputs == {File(InDir, "a", e) : e \in {"jpg", "JPG", "png", "bmp", "txt"}}
CompressOutputs == {Nothing, File(InDir, "o", "jpg"), File(OutDir, "o", "jpg")}
CompressFormats == {None, "jpeg", "JPEG", "jpg", "png", "webp", "bmp", "BMP", "gif"}

InitCompress ==
  /\ dirs \in {{Root, InDir}, {Root, InDir, OutDir}}
  /\ curve = RampCurve
  /\ codecCalls = {}
  /\ \E input \in CompressInputs, output \in CompressOutputs,
        format \in CompressFormats, quality \in {1, MaxQuality} :
       /\ cArgs = [input_path |-> input, output_path |-> output,
                   quality |-> quality, format |-> format]
       /\ \E present \in SUBSET {input, File(InDir, "o", "jpg")} :
            \E c \in Contents :
              fs = [p \in present |-> IF p = input THEN c ELSE Image(524)]
  /\ cpc = "call" /\ cRet = Nothing
  /\ IdleOpt /\ IdleBatch /\ IdleOther

CompressCall ==
  /\ cpc = "call"
  /\ LET ret == Compress(fs, dirs, cArgs.input_path, cArgs.output_path,
                         cArgs.quality, cArgs.format)
     IN /\ fs' = ret.fs
        /\ cRet' = [raised |-> ret.raised, result |-> ret.result]
        /\ codecCalls' = codecCalls \cup ret.codec
  /\ cpc' = "done"
  /\ UNCHANGED <<dirs, curve, cArgs, optVars, batchVars, otherVars>>

NextCompress == CompressCall

SpecCompress == InitCompress /\ [][NextCompress]_vars

----------------------------------------------------------------------------
(* One call of calculate_compression_ratio, or one call of compress *)

InitRatioCall ==
  /\ dirs = {Root}
  /\ fs = << >>
  /\ curve = RampCurve
  /\ codecCalls = {}
  /\ \E original_size \in 0..MaxBytes, compressed_size \in 0..MaxBytes :
       calc = [original_size |-> original_size, compressed_size |-> compressed_size,
               pc |-> "call", result |-> <<0, 0>>]
  /\ calls = << >> /\ cancelled = FALSE /\ cli = Nothing
  /\ IdleCompress /\ IdleOpt /\ IdleBatch

InitRatio == InitRatioCall \/ InitCompress

RatioCall ==
  /\ calc # Nothing /\ calc.pc = "call"
  /\ calc' = [calc EXCEPT
                !.result = calculate_compression_ratio(calc.original_size,
                                                       calc.compressed_size),
                !.pc = "done"]
  /\ UNCHANGED <<fs, dirs, curve, codecCalls, compressVars, optVars, batchVars,
                 calls, cancelled, cli>>

NextRatio == RatioCall \/ CompressCall

SpecRatio == InitRatio /\ [][NextRatio]_vars

----------------------------------------------------------------------------
(* One call of compress with a quality at or beyond the ends of the documented range *)

EdgeQualities ==
  {MinValidQuality - 1, MinValidQuality, MaxValidQuality, MaxValidQuality + 1}

QualityInputs == {File(InDir, "a", e) : e \in {"jpg", "png"}}
QualityFormats == {None, "jpeg", "png"}

InitQuality ==
  /\ dirs \in {{Root, InDir}, {Root, InDir, OutDir}}
  /\ curve = RampCurve
  /\ codecCalls = {}
  /\ \E input \in QualityInputs, output \in CompressOutputs,
        format \in QualityFormats, quality \in EdgeQualities :
       /\ cArgs = [input_path |-> input, output_path |-> output,
                   quality |-> quality, format |-> format]
       /\ \E present \in SUBSET {input, File(InDir, "o", "jpg")} :
            \E c \in Contents :
              fs = [p \in present |-> IF p = input THEN c ELSE Image(524)]
  /\ cpc = "call" /\ cRet = Nothing
  /\ IdleOpt /\ IdleBatch /\ IdleOther

NextQuality == CompressCall

SpecQuality == InitQuality /\ [][NextQuality]_vars

----------------------------------------------------------------------------
(* Terms of the claims *)

\* the format compress works with, requested or inferred, is outside jpeg, png, webp, jpg
UnsupportedRequest(args) ==
  LET fmt == IF args.format = None THEN Lower(args.input_path.ext) ELSE args.format
  IN Lower(fmt) \notin {"jpeg", "png", "webp", "jpg"}

----------------------------------------------------------------------------
(* One call of optimize_quality *)

\* temp_optimize_<stem>.<format or the input's suffix>, next to the input
temp_output(args) ==
  TempName(args.input_path,
           IF args.format = None THEN args.input_path.ext ELSE args.format)

\* the test that makes a probe the best result so far, with < in place of <=
FitsStrictly(result, target_size_mb) == result.compressed_size_mb < target_size_mb

\* result["compressed_size_mb"] <= target_size_mb
Fits(result, target_size_mb) == result.compressed_size_mb <= target_size_mb

\* a finally clause that leaves the scratch file where it is
KeepTemp(fsys, p) == fsys

\* if temp_output.exists(): temp_output.unlink()
CleanUp(fsys, p) == IF Exists(fsys, p) THEN Unlink(fsys, p) ELSE fsys

OptInputs == {File(InDir, "a", e) : e \in {"jpg", "JPG", "bmp"}}
OptFormats == {None, "png", "bmp"}
StaleContents == {Image(524), Junk(525)}

\* the probes of this call run to their end: the input is a decodable image and
\* the format, requested or inferred, has a codec
ProbesWork(fsys, args) ==
  /\ validate_image(fsys, args.input_path)
  /\ fsys[args.input_path].kind = "image"
  /\ ~UnsupportedRequest(args)

InitOpt ==
  /\ dirs = {Root, InDir}
  /\ codecCalls = {}
  /\ \E input \in OptInputs, format \in OptFormats, target \in 1..MaxTarget,
        min_quality \in Quality, max_quality \in Quality :
       /\ oArgs = [input_path |-> input, target_size_mb |-> target, format |-> format,
                   min_quality |-> min_quality, max_quality |-> max_quality]
       /\ low = min_quality
       /\ high = max_quality
       /\ \E present \in SUBSET {input, temp_output(oArgs)} :
            \E c \in Contents, stale \in StaleContents :
              fs = [p \in present |-> IF p = input THEN c ELSE stale]
  /\ curve \in [Quality -> ByteVals]
  /\ (~ProbesWork(fs, oArgs) => curve = RampCurve)
  /\ opc = "loop" /\ best_result = Nothing /\ bestQ = 0 /\ pending = None
  /\ probes = << >> /\ oRet = Nothing
  /\ IdleCompress /\ IdleBatch /\ IdleOther

\* a search that probes the lowest quality left
LowestQuality(lo, hi) == lo

\* a search that probes one above the middle
AboveMiddle(lo, hi) == (lo + hi) \div 2 + 1

\* mid_quality = (low + high) // 2
MidQuality(lo, hi) == (lo + hi) \div 2

\* the body of the try: one probe at mid_quality
OptProbe ==
  /\ opc = "loop"
  /\ low <= high
  /\ LET mid_quality == MidQuality(low, high)
         ret == Compress(fs, dirs, oArgs.input_path, temp_output(oArgs),
                         mid_quality, oArgs.format)
     IN /\ fs' = ret.fs
        /\ codecCalls' = codecCalls \cup ret.codec
        /\ IF ret.raised # None
           THEN /\ pending' = ret.raised
                /\ probes' = Append(probes, [quality |-> mid_quality,
                                             raised |-> ret.raised, size |-> -1])
                /\ UNCHANGED <<low, high, best_result, bestQ>>
           ELSE /\ pending' = None
                /\ probes' = Append(probes, [quality |-> mid_quality, raised |-> None,
                                             size |-> ret.result.compressed_size_mb])
                /\ IF Fits(ret.result, oArgs.target_size_mb)
                   THEN /\ best_result' = ret.result
                        /\ bestQ' = mid_quality
                        /\ low' = mid_quality + 1
                        /\ UNCHANGED high
                   ELSE /\ high' = mid_quality - 1
                        /\ UNCHANGED <<low, best_result, bestQ>>
  /\ opc' = "finally"
  /\ UNCHANGED <<dirs, curve, oArgs, oRet, compressVars, batchVars, otherVars>>

\* the finally clause, then the exception goes on or the loop does
OptFinally ==
  /\ opc = "finally"
  /\ fs' = CleanUp(fs, temp_output(oArgs))
  /\ IF pending # None
     THEN /\ oRet' = [raised |-> pending, result |-> Nothing]
          /\ opc' = "done"
     ELSE /\ opc' = "loop"
          /\ UNCHANGED oRet
  /\ UNCHANGED <<dirs, curve, codecCalls, oArgs, low, high, best_result,
                 bestQ, pending, probes, compressVars, batchVars, otherVars>>

\* after the loop: the best result, or the error
OptReturn ==
  /\ opc = "loop"
  /\ low > high
  /\ oRet' = IF best_result = Nothing
             THEN [raised |-> "ValueError: Cannot achieve target size", result |-> Nothing]
             ELSE [raised |-> None, result |-> best_result]
  /\ opc' = "done"
  /\ UNCHANGED <<fs, dirs, curve, codecCalls, oArgs, low, high,
                 best_result, bestQ, pending, probes, compressVars, batchVars, otherVars>>

NextOpt == OptProbe \/ OptFinally \/ OptReturn

SpecOpt == InitOpt /\ [][NextOpt]_vars

----------------------------------------------------------------------------
(* Calls of compress_batch *)

NoDir == <<"None">>       \* output_dir = None
MissingDir == <<"gone">>  \* a directory that does not exist
DeepOut == <<"new", "out">>

\* output_dir, or input_dir / "compressed" when it is None
ResolvedOutput(args) ==
  IF args.output_dir = NoDir THEN args.input_dir \o <<"compressed">> ELSE args.output_dir

patterns == <<"jpg", "jpeg", "png", "webp">>    \* "*.jpg", "*.jpeg", "*.png", "*.webp"

\* the name of p matches "*.<pattern_ext>"; on the POSIX platforms modelled here
\* pathlib compares the names case-sensitively
Matches(p, pattern_ext) == p.ext = pattern_ext

\* input_dir.glob("*.<ext>") or input_dir.rglob("*.<ext>"), as a set
Glob(fsys, args, pattern_ext) ==
  {p \in DOMAIN fsys :
     /\ Matches(p, pattern_ext)
     /\ IF args.recursive THEN IsPrefix(args.input_dir, p.dir) ELSE p.dir = args.input_dir}

\* the orders a directory enumeration can yield the members of S in
RECURSIVE Orders(_)
Orders(S) ==
  IF S = {} THEN {<< >>}
  ELSE UNION {{<<x>> \o rest : rest \in Orders(S \ {x})} : x \in S}

\* what one pattern can contribute to image_files
PatternOrders(fsys, args, pattern_ext) == Orders(Glob(fsys, args, pattern_ext))

\* the lists image_files can be after the discovery loop
Discoveries(fsys, args) ==
  {o1 \o o2 \o o3 \o o4 :
     o1 \in PatternOrders(fsys, args, patterns[1]),
     o2 \in PatternOrders(fsys, args, patterns[2]),
     o3 \in PatternOrders(fsys, args, patterns[3]),
     o4 \in PatternOrders(fsys, args, patterns[4])}

\* an output path next to the input file, as compress picks it on its own
BatchOutputPathBesideInput(args, image_file) ==
  LET ext == IF args.format = None THEN image_file.ext ELSE args.format
  IN CompressedName(image_file.dir, image_file, ext)

\* the output path of one discovered file
BatchOutputPath(args, image_file) ==
  LET ext == IF args.format = None THEN image_file.ext ELSE args.format
  IN IF args.recursive
     THEN CompressedName(ResolvedOutput(args) \o RelativeParent(image_file, args.input_dir),
                         image_file, ext)
     ELSE CompressedName(ResolvedOutput(args), image_file, ext)

\* a loop that drops the file whose compression raised
RecordedSuccessesOnly(res, image_file, ret) ==
  IF ret.raised # None THEN res ELSE Append(res, ret.result)

\* a loop that puts each new item in front of the earlier ones
RecordedInFront(res, image_file, ret) ==
  IF ret.raised # None
  THEN <<[input_path |-> image_file, error |-> ret.raised, success |-> FALSE]>> \o res
  ELSE <<ret.result>> \o res

\* results.append(result), or the except clause's results.append({...})
Recorded(res, image_file, ret) ==
  IF ret.raised # None
  THEN Append(res, [input_path |-> image_file, error |-> ret.raised, success |-> FALSE])
  ELSE Append(res, ret.result)

BatchFiles ==
  {File(InDir, "a", "jpg"), File(InDir, "b", "jpg"), File(InDir, "a", "png"),
   File(InDir, "a", "JPG"), File(InDir, "a", "bmp"), File(SubDir, "a", "jpg"),
   CompressedName(InDir, File(InDir, "a", "jpg"), "jpg")}

BatchArgs ==
  {[input_dir |-> InDir, output_dir |-> o, quality |-> 2, format |-> f, recursive |-> r] :
     o \in {NoDir, OutDir, InDir}, f \in {None, "jpeg"}, r \in BOOLEAN}
  \cup {[input_dir |-> MissingDir, output_dir |-> OutDir, quality |-> 2,
         format |-> None, recursive |-> FALSE],
        [input_dir |-> InDir, output_dir |-> DeepOut, quality |-> 2,
         format |-> None, recursive |-> FALSE]}

BatchInit(maxFiles) ==
  /\ dirs = {Root, InDir, SubDir}
  /\ curve = RampCurve
  /\ codecCalls = {}
  /\ bArgs \in BatchArgs
  /\ \E present \in SUBSET BatchFiles :
       /\ Cardinality(present) <= maxFiles
       /\ fs \in [present -> Contents]
       /\ Cardinality({p \in present : fs[p].kind # "image"}) <= MaxBad
  /\ bpc = "start" /\ image_files = << >> /\ idx = 0 /\ results = << >>
  /\ bRet = Nothing /\ run = 1 /\ firstRun = Nothing
  /\ IdleCompress /\ IdleOpt /\ IdleOther

InitBatch == BatchInit(MaxFiles)

InitBatchTwice == BatchInit(MaxRerunFiles)

\* output_dir.mkdir(exist_ok=True): the directories afterwards, or the error when the
\* parent of the output root is missing
MakeRoot(dirset, args) ==
  IF ResolvedOutput(args) \notin dirset /\ DirParent(ResolvedOutput(args)) \notin dirset
  THEN [raised |-> "FileNotFoundError", dirs |-> dirset]
  ELSE [raised |-> None, dirs |-> dirset \cup {ResolvedOutput(args)}]

\* a start that makes the output root before it looks at the input root
MakeRootThenCheck(dirset, args) ==
  LET made == MakeRoot(dirset, args)
  IN IF made.raised # None THEN made
     ELSE IF args.input_dir \notin dirset
     THEN [raised |-> "ValueError: Input directory does not exist", dirs |-> made.dirs]
     ELSE made

\* if not input_dir.exists(): raise ..., then the output root
CheckThenMakeRoot(dirset, args) ==
  IF args.input_dir \notin dirset
  THEN [raised |-> "ValueError: Input directory does not exist", dirs |-> dirset]
  ELSE MakeRoot(dirset, args)

\* the checks, the output root and the discovery
BatchStart ==
  /\ bpc = "start"
  /\ LET started == CheckThenMakeRoot(dirs, bArgs)
     IN /\ dirs' = started.dirs
        /\ IF started.raised # None
           THEN /\ bRet' = [raised |-> started.raised, result |-> << >>]
                /\ bpc' = "done"
                /\ UNCHANGED <<image_files, idx>>
           ELSE /\ image_files' \in Discoveries(fs, bArgs)
                /\ idx' = 1
                /\ bpc' = "items"
                /\ UNCHANGED bRet
  /\ UNCHANGED <<fs, curve, codecCalls, bArgs, results, run, firstRun,
                 compressVars, optVars, otherVars>>

\* one iteration of the loop over image_files
BatchItem ==
  /\ bpc = "items"
  /\ idx <= Len(image_files)
  /\ LET image_file == image_files[idx]
         output_path == BatchOutputPath(bArgs, image_file)
         made == IF bArgs.recursive THEN dirs \cup Ancestors(output_path.dir) ELSE dirs
         ret == Compress(fs, made, image_file, output_path, bArgs.quality, bArgs.format)
     IN /\ dirs' = made
        /\ fs' = ret.fs
        /\ codecCalls' = codecCalls \cup ret.codec
        /\ results' = Recorded(results, image_file, ret)
  /\ idx' = idx + 1
  /\ UNCHANGED <<curve, bArgs, bpc, image_files, bRet, run, firstRun,
                 compressVars, optVars, otherVars>>

\* r.get(key, default)
Get(r, key, default) == IF key \in DOMAIN r THEN r[key] ELSE default

\* sum(r.get(key, 0) for r in res)
RECURSIVE Sum(_, _)
Sum(res, key) ==
  IF res = << >> THEN 0 ELSE Get(Head(res), key, 0) + Sum(Tail(res), key)

\* a summary that takes every item for a successful one
everyItem(res) == res

\* [r for r in results if r.get("success", True)]
successful(res) == SelectSeq(res, LAMBDA r : Get(r, "success", TRUE))

\* [r for r in results if not r.get("success", True)]
failed(res) == SelectSeq(res, LAMBDA r : ~Get(r, "success", TRUE))

\* the summary compress_batch logs
BatchSummary(res) ==
  [processed |-> Len(successful(res)),
   images |-> Len(res),
   total_original_mb |-> Sum(successful(res), "original_size_mb"),
   total_compressed_mb |-> Sum(successful(res), "compressed_size_mb")]

\* after the loop: the summary, then return results
BatchReturn ==
  /\ bpc = "items"
  /\ idx > Len(image_files)
  /\ bRet' = [raised |-> None, result |-> results, summary |-> BatchSummary(results)]
  /\ bpc' = "done"
  /\ UNCHANGED <<fs, dirs, curve, codecCalls, bArgs, image_files, idx,
                 results, run, firstRun, compressVars, optVars, otherVars>>

\* the caller runs the same batch a second time
BatchAgain ==
  /\ bpc = "done"
  /\ run = 1
  /\ bRet.raised = None
  /\ firstRun' = [image_files |-> image_files, results |-> results]
  /\ run' = 2
  /\ bpc' = "start"
  /\ image_files' = << >>
  /\ idx' = 0
  /\ results' = << >>
  /\ bRet' = Nothing
  /\ UNCHANGED <<fs, dirs, curve, codecCalls, bArgs, compressVars, optVars, otherVars>>

NextBatch == BatchStart \/ BatchItem \/ BatchReturn

SpecBatch == InitBatch /\ [][NextBatch]_vars

\* the same batch run twice in a row
NextBatchTwice == BatchStart \/ BatchItem \/ BatchReturn \/ BatchAgain

SpecBatchTwice == InitBatchTwice /\ [][NextBatchTwice]_vars

----------------------------------------------------------------------------
(* cli.py: the batch command *)

\* str.upper() on the extensions that occur
Upper(s) ==
  CASE s = "jpg" -> "JPG"
    [] s = "jpeg" -> "JPEG"
    [] s = "png" -> "PNG"
    [] s = "webp" -> "WEBP"
    [] s = "bmp" -> "BMP"
    [] s = "tiff" -> "TIFF"
    [] s = "tif" -> "TIF"
    [] OTHER -> s

image_extensions == {"jpg", "jpeg", "png", "webp", "bmp", "tiff", "tif"}

\* utils.find_images_in_directory: the files matching "*<ext>" or "*<ext.upper()>" that
\* validate; the command takes only the length of the sorted list, so the members are
\* kept as a set
find_images_in_directory(fsys, dirset, directory, recursive) ==
  IF directory \notin dirset
  THEN [raised |-> "FileNotFoundError", images |-> {}]
  ELSE [raised |-> None,
        images |->
          {p \in DOMAIN fsys :
             /\ \E ext \in image_extensions : p.ext = ext \/ p.ext = Upper(ext)
             /\ IF recursive THEN IsPrefix(directory, p.dir) ELSE p.dir = directory
             /\ validate_image(fsys, p)}]

\* the summary the batch command prints
CliSummary(res) ==
  [successful |-> Len(successful(res)),
   failed |-> Len(failed(res)),
   total_original_mb |-> Sum(successful(res), "original_size_mb"),
   total_compressed_mb |-> Sum(successful(res), "compressed_size_mb"),
   total_saved_mb |-> Sum(successful(res), "original_size_mb")
                        - Sum(successful(res), "compressed_size_mb")]

Report == File(Root, "report", "json")

\* json.dump(results, f): the report file
ReportFile(res) == [kind |-> "report", bytes |-> Len(res)]

CliBatchArgs ==
  {[batch |-> a, json_output |-> j] : a \in BatchArgs, j \in {Nothing, Report}}

InitCli ==
  /\ dirs = {Root, InDir, SubDir}
  /\ curve = RampCurve
  /\ codecCalls = {}
  /\ \E present \in SUBSET BatchFiles :
       /\ Cardinality(present) <= MaxFiles
       /\ fs \in [present -> Contents]
       /\ Cardinality({p \in present : fs[p].kind # "image"}) <= MaxBad
  /\ \E a \in CliBatchArgs :
       cli = [cmd |-> "batch", args |-> a, pc |-> "start", images |-> 0,
              exit_code |-> -1, summary |-> Nothing]
  /\ calls = << >> /\ cancelled = FALSE /\ calc = Nothing
  /\ IdleCompress /\ IdleOpt /\ IdleBatch

Exit(code) == [cli EXCEPT !.pc = "exited", !.exit_code = code]

\* click checks the argument input_dir (exists = True), then the command counts the
\* images and calls compress_batch
CliBatchFind ==
  /\ cli # Nothing /\ cli.cmd = "batch" /\ cli.pc = "start"
  /\ LET a == cli.args.batch
         found == find_images_in_directory(fs, dirs, a.input_dir, a.recursive)
     IN IF a.input_dir \notin dirs
        THEN /\ cli' = Exit(2)
             /\ UNCHANGED batchVars
        ELSE IF found.raised # None
        THEN /\ cli' = Exit(1)
             /\ UNCHANGED batchVars
        ELSE IF Cardinality(found.images) = 0
        THEN /\ cli' = [Exit(0) EXCEPT !.images = 0]
             /\ UNCHANGED batchVars
        ELSE /\ cli' = [cli EXCEPT !.pc = "batch", !.images = Cardinality(found.images)]
             /\ bArgs' = a
             /\ bpc' = "start"
             /\ run' = 1
             /\ UNCHANGED <<image_files, idx, results, bRet, firstRun>>
  /\ UNCHANGED <<fs, dirs, curve, codecCalls, compressVars, optVars, calls, cancelled, calc>>

\* after compress_batch: the summary and the report, or the except clause
CliBatchSummary ==
  /\ cli # Nothing /\ cli.cmd = "batch" /\ cli.pc = "batch"
  /\ bpc = "done"
  /\ IF bRet.raised # None
     THEN /\ cli' = Exit(1)
          /\ UNCHANGED fs
     ELSE /\ cli' = [Exit(0) EXCEPT !.summary = CliSummary(bRet.result)]
          /\ fs' = IF cli.args.json_output = Nothing THEN fs
                   ELSE WriteFile(fs, cli.args.json_output, ReportFile(bRet.result))
  /\ UNCHANGED <<dirs, curve, codecCalls, compressVars, optVars, batchVars,
                 calls, cancelled, calc>>

NextCli == CliBatchFind \/ BatchStart \/ BatchItem \/ BatchReturn \/ CliBatchSummary

SpecCli == InitCli /\ [][NextCli]_vars

----------------------------------------------------------------------------
(* cli.py: the formats command, on a compressor that also serves a call of compress *)

\* list(self.compressors.keys())
get_supported_formats == [i \in 1..Len(compressors) |-> compressors[i][1]]

\* the command echoes fmt.upper() for every format of the list
CliFormats ==
  /\ cli = Nothing
  /\ cli' = [cmd |-> "formats", pc |-> "exited", exit_code |-> 0,
             listed |-> get_supported_formats,
             echoed |-> [i \in 1..Len(get_supported_formats) |->
                           Upper(get_supported_formats[i])]]
  /\ UNCHANGED <<fs, dirs, curve, codecCalls, compressVars, optVars, batchVars,
                 calls, cancelled, calc>>

NextFormats == CliFormats \/ CompressCall

SpecFormats == InitCompress /\ [][NextFormats]_vars

----------------------------------------------------------------------------
(* cli.py: the optimize command *)

CliOptInputs == {File(InDir, "a", e) : e \in {"jpg", "png"}}
CliOptFormats == {None, "jpeg", "png", "webp"}     \* click.Choice, or no --format
CliOptOutputs == {Nothing, File(InDir, "o", "jpg")}

InitCliOptimize ==
  /\ dirs = {Root, InDir}
  /\ curve = RampCurve
  /\ codecCalls = {}
  /\ \E input \in CliOptInputs, format \in CliOptFormats, output \in CliOptOutputs,
        target \in 1..MaxTarget, min_quality \in Quality, max_quality \in Quality :
       LET args == [input_path |-> input, target_size_mb |-> target, format |-> format,
                    min_quality |-> min_quality, max_quality |-> max_quality]
       IN /\ cli = [cmd |-> "optimize", args |-> args, output |-> output, pc |-> "start",
                    exit_code |-> -1, reported |-> -1, final |-> Nothing]
          /\ \E present \in SUBSET {input, temp_output(args)} :
               \E c \in Contents, stale \in StaleContents :
                 fs = [p \in present |-> IF p = input THEN c ELSE stale]
  /\ calls = << >> /\ cancelled = FALSE /\ calc = Nothing
  /\ IdleCompress /\ IdleOpt /\ IdleBatch

\* click checks the argument input_path (exists = True), then the command calls
\* optimize_quality
CliOptimizeCall ==
  /\ cli # Nothing /\ cli.cmd = "optimize" /\ cli.pc = "start"
  /\ IF ~Exists(fs, cli.args.input_path)
     THEN /\ cli' = Exit(2)
          /\ UNCHANGED optVars
     ELSE /\ cli' = [cli EXCEPT !.pc = "search"]
          /\ oArgs' = cli.args
          /\ low' = cli.args.min_quality
          /\ high' = cli.args.max_quality
          /\ opc' = "loop"
          /\ UNCHANGED <<best_result, bestQ, pending, probes, oRet>>
  /\ UNCHANGED <<fs, dirs, curve, codecCalls, compressVars, batchVars,
                 calls, cancelled, calc>>

\* after optimize_quality: result["quality"], the final compress with --output, the
\* echo of the quality; every exception ends in the except clause
CliOptimizeReport ==
  /\ cli # Nothing /\ cli.cmd = "optimize" /\ cli.pc = "search"
  /\ opc = "done"
  /\ IF oRet.raised # None
     THEN /\ cli' = Exit(1)
          /\ UNCHANGED <<fs, codecCalls>>
     ELSE IF "quality" \notin DOMAIN oRet.result            \* KeyError: 'quality'
     THEN /\ cli' = Exit(1)
          /\ UNCHANGED <<fs, codecCalls>>
     ELSE IF cli.output = Nothing
     THEN /\ cli' = [Exit(0) EXCEPT !.reported = oRet.result.quality]
          /\ UNCHANGED <<fs, codecCalls>>
     ELSE LET final_result == Compress(fs, dirs, cli.args.input_path, cli.output,
                                       oRet.result.quality, cli.args.format)
          IN /\ fs' = final_result.fs
             /\ codecCalls' = codecCalls \cup final_result.codec
             /\ cli' = IF final_result.raised # None
                       THEN Exit(1)
                       ELSE IF "quality" \notin DOMAIN final_result.result
                       THEN [Exit(1) EXCEPT !.final = final_result.result]
                       ELSE [Exit(0) EXCEPT !.reported = final_result.result.quality,
                                            !.final = final_result.result]
  /\ UNCHANGED <<dirs, curve, compressVars, optVars, batchVars, calls, cancelled, calc>>

NextCliOptimize ==
  CliOptimizeCall \/ OptProbe \/ OptFinally \/ OptReturn \/ CliOptimizeReport

SpecCliOptimize == InitCliOptimize /\ [][NextCliOptimize]_vars

----------------------------------------------------------------------------
(* A caller that signals cancellation while compress_batch or optimize_quality runs *)

InitCancel == BatchInit(MaxRerunFiles) \/ InitOpt

CallRunning == bpc \in {"start", "items"} \/ opc \in {"loop", "finally"}

\* the caller raises the signal; neither function takes or reads such a signal
Cancel ==
  /\ CallRunning
  /\ ~cancelled
  /\ cancelled' = TRUE
  /\ UNCHANGED <<fs, dirs, curve, codecCalls, compressVars, optVars, batchVars,
                 calls, cli, calc>>

NextCancel == Cancel \/ NextBatch \/ NextOpt

SpecCancel == InitCancel /\ [][NextCancel]_vars

----------------------------------------------------------------------------
(* Two calls of optimize_quality side by side, for two different input files *)

CallIds == {1, 2}

ConcInputs == {File(InDir, "a", "jpg"), File(InDir, "a", "png"), File(InDir, "b", "jpg")}
ConcFormats == {None, "jpeg"}

\* optimize_quality run on its own from the files fsys: what it returns or raises
RECURSIVE Alone(_, _, _, _, _, _)
Alone(fsys, dirset, args, lo, hi, best) ==
  IF lo > hi
  THEN IF best = Nothing
       THEN [raised |-> "ValueError: Cannot achieve target size", result |-> Nothing]
       ELSE [raised |-> None, result |-> best]
  ELSE LET mid_quality == (lo + hi) \div 2
           ret == Compress(fsys, dirset, args.input_path, temp_output(args),
                           mid_quality, args.format)
           after == CleanUp(ret.fs, temp_output(args))
       IN IF ret.raised # None
          THEN [raised |-> ret.raised, result |-> Nothing]
          ELSE IF Fits(ret.result, args.target_size_mb)
          THEN Alone(after, dirset, args, mid_quality + 1, hi, ret.result)
          ELSE Alone(after, dirset, args, lo, mid_quality - 1, best)

\* the locals of one call, with what the call returns when it runs alone
NewCall(fsys, dirset, args) ==
  [args |-> args, pc |-> "loop", low |-> args.min_quality, high |-> args.max_quality,
   best_result |-> Nothing, mid_quality |-> 0, codec |-> Nothing, pending |-> None,
   ret |-> Nothing, touched |-> FALSE,
   alone |-> Alone(fsys, dirset, args, args.min_quality, args.max_quality, Nothing)]

InitConcurrent ==
  /\ dirs = {Root, InDir}
  /\ curve = RampCurve
  /\ codecCalls = {}
  /\ \E in1 \in ConcInputs, in2 \in ConcInputs, f1 \in ConcFormats, f2 \in ConcFormats,
        max1 \in Quality, max2 \in Quality, target \in 1..MaxTarget :
       /\ in1 # in2
       /\ fs = [p \in {in1, in2} |-> Image(1573)]
       /\ calls =
            << NewCall(fs, dirs, [input_path |-> in1, target_size_mb |-> target,
                                  format |-> f1, min_quality |-> 1, max_quality |-> max1]),
               NewCall(fs, dirs, [input_path |-> in2, target_size_mb |-> target,
                                  format |-> f2, min_quality |-> 1, max_quality |-> max2]) >>
  /\ cancelled = FALSE /\ cli = Nothing /\ calc = Nothing
  /\ IdleCompress /\ IdleOpt /\ IdleBatch

\* the file content with the call that wrote it
Tagged(content, c) == [kind |-> content.kind, bytes |-> content.bytes, by |-> c]

\* the file at p was written by the other call
Foreign(fsys, p, c) == Exists(fsys, p) /\ "by" \in DOMAIN fsys[p] /\ fsys[p].by # c

SetCall(c, r) == [calls EXCEPT ![c] = r]

\* after the finally clause: the exception goes on or the loop does
AfterFinally(call) ==
  IF call.pending # None
  THEN [call EXCEPT !.ret = [raised |-> call.pending, result |-> Nothing], !.pc = "done"]
  ELSE [call EXCEPT !.pc = "loop"]

\* compress up to the codec's img.save(temp_output)
ConcProbe(c) ==
  LET call == calls[c]
      args == call.args
      mid_quality == (call.low + call.high) \div 2
      temp == temp_output(args)
      fmt == IF args.format = None THEN Lower(args.input_path.ext) ELSE args.format
      compressor == CompressorsGet(Lower(fmt))
  IN /\ call.pc = "loop"
     /\ call.low <= call.high
     /\ IF ~validate_image(fs, args.input_path)
        THEN /\ calls' = SetCall(c, [call EXCEPT !.mid_quality = mid_quality,
                                       !.pending = "ValueError: Invalid image file",
                                       !.pc = "exists"])
             /\ UNCHANGED <<fs, codecCalls>>
        ELSE IF compressor = None
        THEN /\ calls' = SetCall(c, [call EXCEPT !.mid_quality = mid_quality,
                                       !.pending = "ValueError: Unsupported format",
                                       !.pc = "exists"])
             /\ UNCHANGED <<fs, codecCalls>>
        ELSE LET done == CodecCompress(compressor, fs, dirs, args.input_path, temp,
                                       mid_quality)
             IN /\ fs' = IF done.result.success
                         THEN [done.fs EXCEPT ![temp] = Tagged(@, c)]
                         ELSE done.fs
                /\ codecCalls' =
                     codecCalls \cup {[output_path |-> temp, quality |-> mid_quality]}
                /\ calls' = SetCall(c, [call EXCEPT
                     !.mid_quality = mid_quality,
                     !.codec = done.result,
                     !.touched = @ \/ (done.result.success /\ Foreign(fs, temp, c)),
                     !.pc = "stat"])
     /\ UNCHANGED <<dirs, curve, compressVars, optVars, batchVars, cancelled, cli, calc>>

\* get_image_info(temp_output), result.update and the test against the target
ConcStat(c) ==
  LET call == calls[c]
      args == call.args
      temp == temp_output(args)
      original_info == get_image_info(fs, args.input_path).info
      compressed == get_image_info(fs, temp)
  IN /\ call.pc = "stat"
     /\ IF compressed.raised # None
        THEN calls' = SetCall(c, [call EXCEPT !.pending = compressed.raised,
                                              !.pc = "exists"])
        ELSE LET result == Statistics(call.codec, args.input_path, temp, original_info,
                                      compressed.info)
                 fits == Fits(result, args.target_size_mb)
             IN calls' = SetCall(c, [call EXCEPT
                  !.best_result = IF fits THEN result ELSE @,
                  !.low = IF fits THEN call.mid_quality + 1 ELSE @,
                  !.high = IF fits THEN @ ELSE call.mid_quality - 1,
                  !.touched = @ \/ Foreign(fs, temp, c),
                  !.pc = "exists"])
     /\ UNCHANGED <<fs, dirs, curve, codecCalls, compressVars, optVars, batchVars,
                    cancelled, cli, calc>>

\* finally: if temp_output.exists()
ConcExists(c) ==
  LET call == calls[c]
  IN /\ call.pc = "exists"
     /\ calls' = SetCall(c, IF Exists(fs, temp_output(call.args))
                            THEN [call EXCEPT !.pc = "unlink"]
                            ELSE AfterFinally(call))
     /\ UNCHANGED <<fs, dirs, curve, codecCalls, compressVars, optVars, batchVars,
                    cancelled, cli, calc>>

\* finally: temp_output.unlink(), which raises when the file is gone by now
ConcUnlink(c) ==
  LET call == calls[c]
      temp == temp_output(call.args)
  IN /\ call.pc = "unlink"
     /\ IF ~Exists(fs, temp)
        THEN /\ calls' = SetCall(c, [call EXCEPT
                  !.ret = [raised |-> "FileNotFoundError", result |-> Nothing],
                  !.pc = "done"])
             /\ UNCHANGED fs
        ELSE /\ fs' = Unlink(fs, temp)
             /\ calls' = SetCall(c, [AfterFinally(call) EXCEPT
                  !.touched = @ \/ Foreign(fs, temp, c)])
     /\ UNCHANGED <<dirs, curve, codecCalls, compressVars, optVars, batchVars,
                    cancelled, cli, calc>>

\* after the loop: the best result, or the error
ConcReturn(c) ==
  LET call == calls[c]
  IN /\ call.pc = "loop"
     /\ call.low > call.high
     /\ calls' = SetCall(c, [call EXCEPT
          !.ret = IF call.best_result = Nothing
                  THEN [raised |-> "ValueError: Cannot achieve target size",
                        result |-> Nothing]
                  ELSE [raised |-> None, result |-> call.best_result],
          !.pc = "done"])
     /\ UNCHANGED <<fs, dirs, curve, codecCalls, compressVars, optVars, batchVars,
                    cancelled, cli, calc>>

NextConcurrent ==
  \E c \in CallIds :
    ConcProbe(c) \/ ConcStat(c) \/ ConcExists(c) \/ ConcUnlink(c) \/ ConcReturn(c)

SpecConcurrent == InitConcurrent /\ [][NextConcurrent]_vars

----------------------------------------------------------------------------
(* C9 *)

\* C9: a compress whose requested or inferred format is, once lower-cased, none of
\* jpeg, png, webp, jpg raises, makes no codec call and leaves every file as it
\* was; when the input passes validation the error is the unsupported-format one.
C9_UnsupportedFormatRejected ==
  [][(CompressCall /\ UnsupportedRequest(cArgs)) =>
       /\ cRet'.raised # None
       /\ cRet'.result = Nothing
       /\ codecCalls' = codecCalls
       /\ fs' = fs
       /\ (validate_image(fs, cArgs.input_path) =>
             cRet'.raised = "ValueError: Unsupported format")]_vars

C9_Witness ==
  /\ cpc = "done"
  /\ cArgs.format = "BMP"
  /\ cArgs.output_path = File(InDir, "o", "jpg")
  /\ Exists(fs, File(InDir, "o", "jpg"))
  /\ cRet.raised = "ValueError: Unsupported format"

----------------------------------------------------------------------------
(* C1, C2, C3 *)

\* the compressed size, as compress reports it, of the input at quality q
size(q) == SizeMb(curve[q])

Searched == oArgs.min_quality .. oArgs.max_quality

NonDecreasing == \A q1, q2 \in Quality : q1 <= q2 => size(q1) <= size(q2)

Reachable == \E q \in Searched : size(q) <= oArgs.target_size_mb

\* C1: with sizes that do not decrease as the quality grows and a target that
\* some quality of the range meets, optimize_quality returns the result of the
\* probe at a quality q of the range with size(q) <= target, and q is the last
\* such quality: q = max_quality or size(q + 1) > target.
C1_Maximality ==
  (/\ opc = "done"
   /\ ProbesWork(fs, oArgs)
   /\ oArgs.min_quality <= oArgs.max_quality
   /\ NonDecreasing
   /\ Reachable)
  => /\ oRet.raised = None
     /\ oRet.result.success
     /\ oRet.result.compressed_size_mb = size(bestQ)
     /\ ("quality" \in DOMAIN oRet.result => oRet.result.quality = bestQ)
     /\ ("quality_applied" \in DOMAIN oRet.result => oRet.result.quality_applied = bestQ)
     /\ bestQ \in Searched
     /\ size(bestQ) <= oArgs.target_size_mb
     /\ (bestQ = oArgs.max_quality \/ size(bestQ + 1) > oArgs.target_size_mb)

C1_Witness ==
  /\ opc = "done"
  /\ ProbesWork(fs, oArgs)
  /\ NonDecreasing
  /\ oRet.raised = None
  /\ oArgs.min_quality < bestQ
  /\ bestQ < oArgs.max_quality
  /\ size(bestQ) < size(bestQ + 1)
  /\ Len(probes) >= 2

\* C2: when every probe ran to its end and none gave a size <= target, the call
\* raises the target-unreachable error and returns nothing; with sizes that do
\* not decrease as the quality grows that is exactly when size(min_quality) > target.
C2_Unreachable ==
  (opc = "done" /\ \A i \in 1..Len(probes) : probes[i].raised = None) =>
    /\ (\A i \in 1..Len(probes) : probes[i].size > oArgs.target_size_mb)
         => /\ oRet.raised = "ValueError: Cannot achieve target size"
            /\ oRet.result = Nothing
    /\ (ProbesWork(fs, oArgs) /\ NonDecreasing /\ oArgs.min_quality <= oArgs.max_quality)
         => (oRet.raised = "ValueError: Cannot achieve target size"
               <=> size(oArgs.min_quality) > oArgs.target_size_mb)

C2_Witness ==
  /\ opc = "done"
  /\ ProbesWork(fs, oArgs)
  /\ NonDecreasing
  /\ Len(probes) >= 2
  /\ size(oArgs.min_quality) > oArgs.target_size_mb
  /\ oRet.raised = "ValueError: Cannot achieve target size"

\* C3: when a call that made a probe returns or raises, no file is left at the
\* scratch path temp_optimize_<stem>.<ext>.
C3_ScratchCleanup ==
  (opc = "done" /\ Len(probes) > 0) => ~Exists(fs, temp_output(oArgs))

\* a probe found a file at the scratch path and raised; the call has raised in turn
C3_Witness ==
  /\ opc = "done"
  /\ oRet.raised = "ValueError: Cannot read image info"
  /\ ~Exists(fs, temp_output(oArgs))

----------------------------------------------------------------------------
(* C4, C5 *)

\* compress can succeed on f as the files stand: f passes validation, decodes,
\* and the output format has a codec
Compressible(fsys, args, f) ==
  /\ validate_image(fsys, f)
  /\ fsys[f].kind = "image"
  /\ ~UnsupportedRequest([format |-> args.format, input_path |-> f])

FailedItems(res) == {i \in 1..Len(res) : ~res[i].success}

\* the loop has been entered and the call has returned
Returned == bpc = "done" /\ idx >= 1

\* what one iteration of the loop does to results
C4_Step ==
  BatchItem =>
    /\ Len(results') = Len(results) + 1
    /\ SubSeq(results', 1, Len(results)) = results
    /\ LET f == image_files[idx]
           item == results'[Len(results')]
       IN /\ item.input_path = f
          /\ IF Compressible(fs, bArgs, f)
             THEN item.success /\ "error" \notin DOMAIN item
             ELSE ~item.success /\ "error" \in DOMAIN item /\ item.error # None
    /\ idx' = idx + 1
    /\ bpc' = "items"

\* what the call returns once the loop has been entered
C4_Returned ==
  Returned =>
    /\ bRet.raised = None
    /\ Len(bRet.result) = Len(image_files)
    /\ (ResolvedOutput(bArgs) = OutDir =>
          LET failing == {i \in 1..Len(image_files) :
                            ~Compressible(fs, bArgs, image_files[i])}
          IN /\ FailedItems(bRet.result) = failing
             /\ (Cardinality(failing) = 1 =>
                   Cardinality({i \in 1..Len(bRet.result) : bRet.result[i].success})
                     = Len(image_files) - 1))

\* C4: a file whose compression raises, or whose codec fails, becomes an item
\* with success = false and a non-null error, the loop goes on with the next
\* file, and the call returns normally with one item per file; with N files of
\* which one fails, N-1 items are successful and one is failed.
C4_FailureIsolation == []C4_Returned /\ [][C4_Step]_vars

C4_Witness ==
  /\ Returned
  /\ ResolvedOutput(bArgs) = OutDir
  /\ Len(bRet.result) = 3
  /\ FailedItems(bRet.result) = {1}
  /\ bRet.result[1].error = "ValueError: Invalid image file"

\* C5: the result list has one item per discovered file, and the i-th item is
\* the one of the i-th discovered file, whether it succeeded or failed.
C5_OneItemPerFile ==
  /\ (bpc = "items" => Len(results) = idx - 1)
  /\ (Returned => bRet.result = results /\ Len(results) = Len(image_files))
  /\ (bpc \in {"items", "done"} =>
        \A i \in 1..Len(results) :
          i <= Len(image_files) /\ results[i].input_path = image_files[i])

C5_Witness ==
  /\ Returned
  /\ Len(bRet.result) = 3
  /\ FailedItems(bRet.result) = {2}
  /\ image_files[1].ext # image_files[3].ext

----------------------------------------------------------------------------
(* C6, C7, C8, C10 *)

InputPaths(res) == [i \in 1..Len(res) |-> res[i].input_path]

Range(seq) == {seq[i] : i \in 1..Len(seq)}

\* the second run of the same batch has returned
ReturnedTwice == Returned /\ run = 2

\* C6: two runs of compress_batch with the same arguments over an unchanged
\* file set list the same input paths in the same order, whatever order the
\* directory entries are enumerated in.
C6_DeterministicDiscovery ==
  (ReturnedTwice /\ ResolvedOutput(bArgs) = OutDir) =>
    InputPaths(results) = InputPaths(firstRun.results)

\* the files under the input root whose lower-cased extension is a supported one
SupportedUnderRoot ==
  {p \in DOMAIN fs :
     /\ Lower(p.ext) \in {"jpg", "jpeg", "png", "webp", "bmp", "tiff", "tif"}
     /\ IF bArgs.recursive THEN IsPrefix(bArgs.input_dir, p.dir)
        ELSE p.dir = bArgs.input_dir}

\* the discovery has just been made
Discovered == bpc = "items" /\ idx = 1

\* C7: the discovered files are exactly the files under the input root
\* (immediate children, or all descendants when recursive) whose extension is,
\* case-insensitively, one of .jpg .jpeg .png .webp .bmp .tiff .tif.
C7_DiscoverySet == Discovered => Range(image_files) = SupportedUnderRoot

\* C8: any two distinct discovered files get distinct output paths, and no
\* output path is the path of a discovered file.
C8_NoOutputCollision ==
  Discovered =>
    \A i, j \in 1..Len(image_files) :
      /\ i # j => BatchOutputPath(bArgs, image_files[i]) # BatchOutputPath(bArgs, image_files[j])
      /\ BatchOutputPath(bArgs, image_files[i]) # image_files[j]

\* the output paths of the files, relative to the output root
RelativeOutputs(files) ==
  {[BatchOutputPath(bArgs, f) EXCEPT
      !.dir = SubSeq(@, Len(ResolvedOutput(bArgs)) + 1, Len(@))] : f \in Range(files)}

\* C10: two recursive runs with the same arguments, the default output root
\* included, give the same set of output paths relative to the output root.
C10_IdempotentStructure ==
  (ReturnedTwice /\ bArgs.recursive) =>
    RelativeOutputs(image_files) = RelativeOutputs(firstRun.image_files)

----------------------------------------------------------------------------
(* Errors of a single file *)

\* C17: when the codec fails on an input that passed validation, compress raises: a call
\* of compress that returns hands back the record of a compression that succeeded, never
\* a success = False record carrying size statistics.
C17_CodecFailureRaises ==
  (cpc = "done" /\ cRet.raised = None) => cRet.result.success = TRUE

\* C16: every result optimize_quality returns has success = True and a size within the
\* target, also when the codec fails while a file lies at the scratch path.
C16_ReturnsSuccessWithinTarget ==
  (opc = "done" /\ oRet.raised = None /\ oRet.result # Nothing) =>
    /\ oRet.result.success = TRUE
    /\ oRet.result.compressed_size_mb <= oArgs.target_size_mb

----------------------------------------------------------------------------
(* The output root *)

\* C15: for an existing input root compress_batch creates the output root when it is
\* absent, also when the parents of the output root are absent, and the output root
\* exists whenever the call returns normally: the call does not fail over the root.
C15_OutputRootCreated ==
  (bpc = "done" /\ bArgs.input_dir \in dirs) =>
    /\ bRet.raised = None
    /\ ResolvedOutput(bArgs) \in dirs

\* the paths a step creates, deletes or gives other contents
ChangedFiles ==
  {p \in DOMAIN fs \cup DOMAIN fs' :
     \/ p \notin DOMAIN fs
     \/ p \notin DOMAIN fs'
     \/ fs'[p] # fs[p]}

UnderOutputRoot(d) == IsPrefix(ResolvedOutput(bArgs), d)

\* C14: every file compress_batch creates, overwrites or deletes and every directory
\* it creates lies under the output root; no file outside the output root changes,
\* the input files included when the output root is outside the input root.
C14_InsideOutputRoot ==
  [][/\ \A p \in ChangedFiles : UnderOutputRoot(p.dir)
     /\ \A c \in codecCalls' \ codecCalls : UnderOutputRoot(c.output_path.dir)
     /\ \A d \in dirs' \ dirs : UnderOutputRoot(d)
     /\ (~IsPrefix(bArgs.input_dir, ResolvedOutput(bArgs)) =>
           \A p \in DOMAIN fs :
             IsPrefix(bArgs.input_dir, p.dir) => (p \in DOMAIN fs' /\ fs'[p] = fs[p]))]_vars

C14_Witness ==
  /\ bpc = "done" /\ bRet.raised = None
  /\ bArgs.output_dir = OutDir /\ bArgs.recursive
  /\ OutDir \o <<"sub">> \in dirs
  /\ \E p \in DOMAIN fs : p.dir = OutDir \o <<"sub">>
  /\ \E p \in DOMAIN fs : p.dir = OutDir

----------------------------------------------------------------------------
(* The batch command *)

\* C13: the batch command exits 0 if at least one item succeeded, and exits non-zero
\* if every item failed or compress_batch failed as a whole (discovery, output root).
C13_BatchExitCode ==
  (cli.pc = "exited" /\ bpc = "done") =>
    /\ (bRet.raised = None /\ \E i \in 1..Len(results) : results[i].success)
         => cli.exit_code = 0
    /\ (bRet.raised = None /\ Len(results) > 0
          /\ \A i \in 1..Len(results) : ~results[i].success)
         => cli.exit_code # 0
    /\ bRet.raised # None => cli.exit_code # 0

\* the sum of a field over the items of res at the positions S
RECURSIVE SumOver(_, _, _)
SumOver(res, S, key) ==
  IF S = {} THEN 0
  ELSE LET i == CHOOSE j \in S : TRUE
       IN res[i][key] + SumOver(res, S \ {i}, key)

NotFalse(res) == {i \in 1..Len(res) : res[i].success # FALSE}

\* C18: the summaries are those of the returned item list: successful + failed is the
\* number of items, and the totals are the sums of original_size_mb and
\* compressed_size_mb over exactly the items whose success flag is not false.
C18_SummaryConsistent ==
  (cli.pc = "exited" /\ cli.summary # Nothing) =>
    LET res == bRet.result
        S == NotFalse(res)
    IN /\ cli.summary.successful + cli.summary.failed = Len(res)
       /\ cli.summary.successful = Cardinality(S)
       /\ cli.summary.total_original_mb = SumOver(res, S, "original_size_mb")
       /\ cli.summary.total_compressed_mb = SumOver(res, S, "compressed_size_mb")
       /\ bRet.summary.processed = Cardinality(S)
       /\ bRet.summary.images = Len(res)
       /\ bRet.summary.total_original_mb = SumOver(res, S, "original_size_mb")
       /\ bRet.summary.total_compressed_mb = SumOver(res, S, "compressed_size_mb")

C18_Witness ==
  /\ cli.pc = "exited" /\ cli.summary # Nothing
  /\ cli.summary.successful >= 2
  /\ cli.summary.total_original_mb > 0
  /\ \E i \in 1..Len(bRet.result) :
       /\ ~bRet.result[i].success
       /\ "original_size_mb" \in DOMAIN bRet.result[i]

----------------------------------------------------------------------------
(* Ratios *)

\* the pair r stands for the quotient n / d
IsQuotient(r, n, d) == r[2] # 0 /\ r[1] * d = n * r[2]

\* calculate_compression_ratio has returned
C19_RatioReturned ==
  (calc # Nothing /\ calc.pc = "done") =>
    IF calc.original_size > 0
    THEN IsQuotient(calc.result, calc.compressed_size, calc.original_size)
    ELSE IsQuotient(calc.result, 0, 1)

\* compress has returned a result
C19_CompressReturned ==
  (cpc = "done" /\ cRet.raised = None) =>
    LET r == cRet.result.compression_ratio
        saved == cRet.result.space_saved_percent
    IN /\ IsQuotient(r, fs[cRet.result.output_path].bytes, fs[cArgs.input_path].bytes)
       /\ IsQuotient(saved, (r[2] - r[1]) * 100, r[2])

\* C19: calculate_compression_ratio(original, compressed) is compressed / original when
\* original > 0 and 0 when original = 0, never a division by zero, and every result of
\* compress has space_saved_percent = (1 - compression_ratio) * 100.
C19_CompressionRatio == C19_RatioReturned /\ C19_CompressReturned

C19_Witness ==
  /\ calc # Nothing /\ calc.pc = "done"
  /\ calc.original_size = 0 /\ calc.compressed_size > 0
  /\ calc.result[1] = 0

----------------------------------------------------------------------------
(* Qualities *)

\* C20: every quality handed to a codec lies in [1, 100]; a request whose quality is
\* outside [1, 100] never reaches a codec.
C20_QualityInRange ==
  \A c \in codecCalls : c.quality \in MinValidQuality..MaxValidQuality

----------------------------------------------------------------------------
(* Cancellation *)

\* a call that was cancelled has returned
ReturnedCancelled ==
  /\ cancelled
  /\ \/ bpc = "done" /\ bRet.raised = None
     \/ opc = "done" /\ oRet.raised = None

\* C12: a cancellation signal raised during compress_batch or optimize_quality is
\* observed before the next batch item or the next probe starts: no item and no probe
\* is started once the signal is up, and what the call returns carries a cancellation
\* indicator.
C12_CancellationObserved ==
  /\ [](ReturnedCancelled =>
          \/ bpc = "done" /\ "cancelled" \in DOMAIN bRet
          \/ opc = "done" /\ "cancelled" \in DOMAIN oRet.result)
  /\ [][cancelled => /\ results' = results
                     /\ probes' = probes
                     /\ codecCalls' = codecCalls]_vars

----------------------------------------------------------------------------
(* Calls side by side *)

\* C11: two optimize_quality calls on two different input files, their probes
\* interleaved in any order, each return the result or the error they return when run
\* alone, and neither reads, overwrites or deletes a scratch file the other wrote.
C11_IndependentCalls ==
  \A c \in DOMAIN calls :
    /\ ~calls[c].touched
    /\ calls[c].pc = "done" => calls[c].ret = calls[c].alone

----------------------------------------------------------------------------
(* The search of optimize_quality *)

\* the probes of this call that ran to their end with a size within the target
Feasible ==
  {i \in 1..Len(probes) :
     probes[i].raised = None /\ probes[i].size <= oArgs.target_size_mb}

\* C23: for any size function the result optimize_quality returns is the probe with
\* the highest quality among the probes of the call whose size was <= target, and the
\* search went on after the first such probe until low > high.
C23_HighestFeasibleProbe ==
  (opc = "done" /\ oRet.raised = None) =>
    /\ Feasible # {}
    /\ low > high
    /\ \E i \in Feasible :
         /\ probes[i].quality = bestQ
         /\ \A j \in Feasible : probes[j].quality <= probes[i].quality
         /\ oRet.result.compressed_size_mb = probes[i].size
         /\ oRet.result.output_path = temp_output(oArgs)
         /\ ("quality" \in DOMAIN oRet.result => oRet.result.quality = bestQ)
         /\ ("quality_applied" \in DOMAIN oRet.result =>
               oRet.result.quality_applied = bestQ)

\* a size curve that goes down, two probes within the target, the later one returned
C23_Witness ==
  /\ opc = "done" /\ oRet.raised = None
  /\ ~NonDecreasing
  /\ Cardinality(Feasible) >= 2
  /\ \E i \in 1..Len(probes) : probes[i].raised = None /\ i \notin Feasible
  /\ bestQ > probes[1].quality

\* floor(log2(n)) for n >= 1
RECURSIVE Log2Floor(_)
Log2Floor(n) == IF n <= 1 THEN 0 ELSE 1 + Log2Floor(n \div 2)

\* the number of probes a call with these bounds may make
ProbeBound(args) ==
  IF args.min_quality <= args.max_quality
  THEN Log2Floor(args.max_quality - args.min_quality + 1) + 1
  ELSE 0

C24_Bounded ==
  /\ Len(probes) <= ProbeBound(oArgs)
  /\ \A i, j \in 1..Len(probes) : probes[i].quality = probes[j].quality => i = j

\* a measure of what is left of the call: 0 once it has returned or raised
Rank ==
  LET span == IF low <= high THEN high - low + 1 ELSE 0
  IN CASE opc = "done" -> 0
       [] opc = "finally" /\ pending # None -> 1
       [] opc = "finally" /\ pending = None -> 2 * span + 2
       [] opc = "loop" -> 2 * span + 1

\* C24: for every pair of bounds and every size function optimize_quality terminates
\* (every step brings the call nearer to its end), after at most
\* floor(log2(max_quality - min_quality + 1)) + 1 probes when min_quality <= max_quality,
\* and no quality is probed twice in one call.
C24_TerminationAndProbeBound == []C24_Bounded /\ [][Rank' < Rank]_vars

\* a call over the whole quality scale that used up the bound, no probe raising
C24_Witness ==
  /\ opc = "done"
  /\ oArgs.min_quality < oArgs.max_quality
  /\ Len(probes) = ProbeBound(oArgs)
  /\ Len(probes) >= 2
  /\ \A i \in 1..Len(probes) : probes[i].raised = None

\* C25: with min_quality = max_quality the call makes exactly one probe, at that
\* quality; it returns that probe's result if its size is <= target and raises the
\* target-unreachable error otherwise (a probe that raises ends the call with its error).
C25_DegenerateRange ==
  (opc = "done" /\ oArgs.min_quality = oArgs.max_quality) =>
    /\ Len(probes) = 1
    /\ probes[1].quality = oArgs.min_quality
    /\ IF probes[1].raised # None
       THEN oRet.raised = probes[1].raised /\ oRet.result = Nothing
       ELSE IF probes[1].size <= oArgs.target_size_mb
       THEN /\ oRet.raised = None
            /\ oRet.result.compressed_size_mb = probes[1].size
            /\ bestQ = oArgs.min_quality
       ELSE /\ oRet.raised = "ValueError: Cannot achieve target size"
            /\ oRet.result = Nothing

\* a single probe that met the target exactly
C25_Witness ==
  /\ opc = "done" /\ oArgs.min_quality = oArgs.max_quality
  /\ ProbesWork(fs, oArgs)
  /\ Len(probes) = 1
  /\ probes[1].size = oArgs.target_size_mb
  /\ oRet.raised = None

\* C27: at the head of the loop, for bounds min_quality <= max_quality:
\* min_quality <= low, high <= max_quality and low <= high + 1; best_result is absent
\* exactly when low = min_quality and otherwise is the probe at quality low - 1; every
\* probe quality lies in [min_quality, max_quality].
C27_LoopInvariant ==
  (opc = "loop" /\ oArgs.min_quality <= oArgs.max_quality) =>
    /\ oArgs.min_quality <= low
    /\ high <= oArgs.max_quality
    /\ low <= high + 1
    /\ (best_result = Nothing <=> low = oArgs.min_quality)
    /\ (best_result # Nothing =>
          /\ bestQ = low - 1
          /\ \E i \in 1..Len(probes) :
               /\ probes[i].quality = low - 1
               /\ probes[i].size = best_result.compressed_size_mb)
    /\ \A i \in 1..Len(probes) : probes[i].quality \in Searched

\* the head of the loop after a probe within the target and a probe above it
C27_Witness ==
  /\ opc = "loop" /\ oArgs.min_quality < oArgs.max_quality
  /\ best_result # Nothing
  /\ low > oArgs.min_quality /\ high < oArgs.max_quality
  /\ Len(probes) >= 2

\* C28: for every size function, monotone or not, when optimize_quality raises the
\* target-unreachable error no quality in [min_quality, max_quality] gives a size
\* <= target.
C28_UnreachableSound ==
  (/\ opc = "done"
   /\ ProbesWork(fs, oArgs)
   /\ oRet.raised = "ValueError: Cannot achieve target size")
  => ~Reachable

\* C29: optimize_quality leaves every file that existed before the call unchanged and
\* in place, a file at the scratch path included: the first probe of a call, before
\* which every file is one that existed before the call, changes and removes no file.
C29_OptimizerFrame ==
  [][Len(probes) = 0 => \A p \in DOMAIN fs : p \in DOMAIN fs' /\ fs'[p] = fs[p]]_vars

----------------------------------------------------------------------------
(* Failures of the batch as a whole *)

\* compress_batch starts with an input root that does not exist
C26_Step ==
  (BatchStart /\ bArgs.input_dir \notin dirs) =>
    /\ bRet'.raised = "ValueError: Input directory does not exist"
    /\ bpc' = "done"
    /\ dirs' = dirs
    /\ fs' = fs
    /\ codecCalls' = codecCalls
    /\ results' = << >> /\ image_files' = << >>

\* once the loop over the files has been entered the call does not raise
C26_NoRaiseFromItems ==
  (bpc = "done" /\ bRet.raised # None) =>
    /\ idx = 0
    /\ results = << >>
    /\ codecCalls = {}

\* C26: compress_batch called with an input root that does not exist raises before it
\* creates the output root or any other file or directory and before it processes any
\* item; errors of single items never make the batch call itself raise.
C26_SystemicFailure == []C26_NoRaiseFromItems /\ [][C26_Step]_vars

C26_Witness ==
  /\ bpc = "done"
  /\ bArgs.input_dir = MissingDir
  /\ bRet.raised = "ValueError: Input directory does not exist"
  /\ ResolvedOutput(bArgs) \notin dirs
  /\ DOMAIN fs # {}

----------------------------------------------------------------------------
(* The items of the report *)

ReportFields ==
  {"input_path", "output_path", "success", "original_size_mb", "compressed_size_mb",
   "compression_ratio", "space_saved_mb", "space_saved_percent", "error"}

\* C22: every item of the list compress_batch returns, successful or failed, has all of
\* the fields input_path, output_path, success, original_size_mb, compressed_size_mb,
\* compression_ratio, space_saved_mb, space_saved_percent and error, and error is null
\* exactly when the item succeeded.
C22_ReportShape ==
  (bpc = "done" /\ bRet.raised = None) =>
    \A i \in 1..Len(bRet.result) :
      /\ ReportFields \subseteq DOMAIN bRet.result[i]
      /\ (bRet.result[i].error = None <=> bRet.result[i].success)

----------------------------------------------------------------------------
(* The list of formats *)

\* C21: get_supported_formats, and the formats command built on it, lists exactly the
\* formats jpeg, png and webp, each once and nothing else.
C21_SupportedFormats ==
  (cli # Nothing /\ cli.cmd = "formats") =>
    /\ {cli.listed[i] : i \in 1..Len(cli.listed)} = {"jpeg", "png", "webp"}
    /\ \A i, j \in 1..Len(cli.listed) : cli.listed[i] = cli.listed[j] => i = j
    /\ {cli.echoed[i] : i \in 1..Len(cli.echoed)} = {"JPEG", "PNG", "WEBP"}
    /\ Len(cli.echoed) = Len(cli.listed)

----------------------------------------------------------------------------
(* The optimize command *)

\* C30: whenever optimize_quality returns a result, for the output format jpeg, png or
\* webp, the optimize command exits 0 and reports that result's quality, and with
\* --output it writes a final file compressed at exactly that quality whose size is
\* <= the target.
C30_OptimizeReportsQuality ==
  (/\ cli # Nothing /\ cli.cmd = "optimize" /\ cli.pc = "exited"
   /\ opc = "done" /\ oRet.raised = None /\ oRet.result.success)
  => /\ cli.exit_code = 0
     /\ cli.reported = bestQ
     /\ (cli.output # Nothing =>
           /\ Exists(fs, cli.output)
           /\ [output_path |-> cli.output, quality |-> bestQ] \in codecCalls
           /\ cli.final.compressed_size_mb <= cli.args.target_size_mb)

============================================================================
